---- MODULE Spec2Model ----
(***************************************************************************)
(* Model of node-redis-memoize: the Redis variant (src/unnamed/part_001)   *)
(* and the generalized "cache" variant (src/index.js).                     *)
(*                                                                         *)
(* Text (cache keys, glob patterns, stored payloads) is a sequence of      *)
(* one-character strings.  A JavaScript value is a record tagged by t:     *)
(*   [t |-> "null"], [t |-> "num", n |-> 0], [t |-> "bool", b |-> TRUE],   *)
(*   [t |-> "str", s |-> text], [t |-> "obj", props |-> <<[k, val], ..>>]  *)
(* where props lists an object's own properties in insertion order.        *)
(***************************************************************************)
EXTENDS Integers, Sequences, FiniteSets, TLC

----------------------------------------------------------------------------
(* Bounds of the model *)

\* total number of wrapper invocations in a behaviour
MaxCalls == 2
\* invalidate (clearCache) requests in a behaviour
MaxInvalidations == 1
\* store commands that may be rejected in a behaviour
MaxFaults == 1
\* changes of the connection status in a behaviour
MaxFlips == 1
\* configuration calls (initialize, memoize) in a behaviour
MaxSetups == 3

----------------------------------------------------------------------------
(* Program constants *)

\* const REQUEST_RESET_KEY = '__stale__'
REQUEST_RESET_KEY == <<"_", "_", "s", "t", "a", "l", "e", "_", "_">>
\* const DEFAULT_TTL = 60 * 5
DEFAULT_TTL == 60 * 5
\* const DEFAULT_PREFETCH_RATIO = 0.7, in thousandths
DEFAULT_PREFETCH_RATIO == 700
\* const DEFAULT_LOGS_DISABLED = false
DEFAULT_LOGS_DISABLED == FALSE

----------------------------------------------------------------------------
(* JavaScript values *)

Null == [t |-> "null"]
Num(n) == [t |-> "num", n |-> n]
Bool(b) == [t |-> "bool", b |-> b]
Str(s) == [t |-> "str", s |-> s]
Obj(props) == [t |-> "obj", props |-> props]
Prop(k, val) == [k |-> k, val |-> val]

\* ToBoolean: what `!x` and `if (x)` test
Truthy(x) ==
    CASE x.t = "null" -> FALSE
      [] x.t = "num" -> x.n # 0
      [] x.t = "bool" -> x.b
      [] x.t = "str" -> x.s # <<>>
      [] OTHER -> TRUE

\* typeof x === 'object' (true of null as well)
TypeofObject(x) == x.t \in {"obj", "null"}

\* UTF-16 order of the characters that occur in property names
CharOrder == <<"0", "1", "2", "_", "a", "b", "e", "l", "s", "t", "v", "x", "y">>
CharCode(c) == CHOOSE i \in 1..Len(CharOrder) : CharOrder[i] = c

RECURSIVE TextLess(_, _)
\* a < b on strings, as Array.prototype.sort compares property names
TextLess(a, b) ==
    IF b = <<>> THEN FALSE
    ELSE IF a = <<>> THEN TRUE
    ELSE IF Head(a) = Head(b) THEN TextLess(Tail(a), Tail(b))
    ELSE CharCode(Head(a)) < CharCode(Head(b))

\* String(n) for the small non-negative integers of the model
NumText(n) == IF n < 10 THEN <<CharOrder[n + 1]>> ELSE <<CharOrder[(n \div 10) + 1], CharOrder[(n % 10) + 1]>>

Quote(s) == <<"\"">> \o s \o <<"\"">>

RECURSIVE SortProps(_)
\* the properties of an object ordered by name: Object.keys(node).sort()
SortProps(props) ==
    IF props = <<>> THEN <<>>
    ELSE LET i == CHOOSE i \in 1..Len(props) :
                      \A j \in 1..Len(props) : j = i \/ TextLess(props[i].k, props[j].k)
             rest == [j \in 1..(Len(props) - 1) |-> IF j < i THEN props[j] ELSE props[j + 1]]
         IN  <<props[i]>> \o SortProps(rest)

RECURSIVE Serialize(_, _)
RECURSIVE SerializeProps(_, _)
\* JSON text of a value; stable = TRUE emits object properties sorted by name
Serialize(x, stable) ==
    CASE x.t = "null" -> <<"n", "u", "l", "l">>
      [] x.t = "num" -> NumText(x.n)
      [] x.t = "bool" -> IF x.b THEN <<"t", "r", "u", "e">> ELSE <<"f", "a", "l", "s", "e">>
      [] x.t = "str" -> Quote(x.s)
      [] OTHER -> <<"{">> \o SerializeProps(IF stable THEN SortProps(x.props) ELSE x.props, stable) \o <<"}">>
SerializeProps(props, stable) ==
    IF props = <<>> THEN <<>>
    ELSE Quote(props[1].k) \o <<":">> \o Serialize(props[1].val, stable)
         \o (IF Len(props) > 1 THEN <<",">> \o SerializeProps(Tail(props), stable) ELSE <<>>)

JSONstringify(x) == Serialize(x, FALSE)
stableStringify(x) == Serialize(x, TRUE)

----------------------------------------------------------------------------
(* Inputs of the model *)

\* the object {v: n}
ObjV(n) == Obj(<<Prop(<<"v">>, Num(n))>>)

\* values the wrapped operation may resolve with
Results == {ObjV(1), ObjV(2), Num(0)}
\* errors the wrapped operation may reject with
Errors == {"e1"}

\* data[name] = true on a value read from the store: a property assignment on an
\* object, silently ignored on a primitive (the module is not in strict mode)
SetTrue(data, name) ==
    IF data.t # "obj" THEN data
    ELSE IF \E i \in 1..Len(data.props) : data.props[i].k = name
         THEN Obj([i \in 1..Len(data.props) |->
                      IF data.props[i].k = name THEN Prop(name, Bool(TRUE)) ELSE data.props[i]])
         ELSE Obj(Append(data.props, Prop(name, Bool(TRUE))))

\* data[name]
GetProp(data, name) ==
    IF data.t = "obj" /\ \E i \in 1..Len(data.props) : data.props[i].k = name
    THEN data.props[CHOOSE i \in 1..Len(data.props) : data.props[i].k = name].val
    ELSE Null

\* the JSON values a text of the model can denote
JsonUniverse ==
    Results \cup {SetTrue(r, REQUEST_RESET_KEY) : r \in Results} \cup {Null, Num(1), Num(2)}

\* JSON.parse(text): the value whose JSON text it is; "SyntaxError" when there is none
JSONparse(text) ==
    IF \E x \in JsonUniverse : JSONstringify(x) = text
    THEN [ok |-> TRUE, val |-> CHOOSE x \in JsonUniverse : JSONstringify(x) = text]
    ELSE [ok |-> FALSE, val |-> Null]

\* the functions handed to memoize: two named ones, an anonymous one, a non-function
FnF == [callable |-> TRUE, name |-> <<"f">>]
FnG == [callable |-> TRUE, name |-> <<"g">>]
FnAnon == [callable |-> TRUE, name |-> <<>>]
NotFn == [callable |-> FALSE, name |-> <<>>]
Fns == {FnF, FnG, FnAnon, NotFn}
Names == {<<"f">>, <<"g">>}

\* argument lists of wrapper invocations
ArgLists == {<<Str(<<"a">>)>>, <<Str(<<"b">>)>>}
\* the invocations of the model: f("a"), f("b") and g("a")
CallInputs == {<<<<"f">>, <<Str(<<"a">>)>>>>, <<<<"f">>, <<Str(<<"b">>)>>>>, <<<<"g">>, <<Str(<<"a">>)>>>>}

\* the `arguments` object of a call: {"0": a1, "1": a2, ...}
ArgumentsObject(args) == Obj([i \in 1..Len(args) |-> Prop(NumText(i - 1), args[i])])

\* generateRedisKey as it would be with JSON.stringify in place of stableStringify
generateRedisKey_InsertionOrder(fn, args) ==
    fn.name \o <<":">> \o JSONstringify(ArgumentsObject(args))

\* Generates a cache key from a function and its arguments
generateRedisKey(fn, args) == fn.name \o <<":">> \o stableStringify(ArgumentsObject(args))

Keys == {generateRedisKey([callable |-> TRUE, name |-> in[1]], in[2]) : in \in CallInputs}

\* objects as arguments, the same properties inserted in different orders, nested too
ObjXY == Obj(<<Prop(<<"x">>, Num(1)), Prop(<<"y">>, Num(2))>>)
ObjYX == Obj(<<Prop(<<"y">>, Num(2)), Prop(<<"x">>, Num(1))>>)
ObjXYOther == Obj(<<Prop(<<"x">>, Num(2)), Prop(<<"y">>, Num(1))>>)
ObjNested == Obj(<<Prop(<<"a">>, ObjXY), Prop(<<"b">>, Str(<<"a">>))>>)
ObjNestedSwapped == Obj(<<Prop(<<"b">>, Str(<<"a">>)), Prop(<<"a">>, ObjYX)>>)
KeyArgValues == {ObjXY, ObjYX, ObjXYOther, ObjNested, ObjNestedSwapped, Str(<<"a">>)}
KeyArgLists == {<<v>> : v \in KeyArgValues} \cup {<<v, w>> : v \in KeyArgValues, w \in {ObjXY, ObjYX}}

\* locatorString arguments of clearCache; <<>> is "no locator"
Locators == {<<>>, <<"a">>}

RECURSIVE GlobMatch(_, _)
\* the store's KEYS pattern match: * matches any run, ? any one character
GlobMatch(p, s) ==
    IF p = <<>> THEN s = <<>>
    ELSE IF Head(p) = "*" THEN GlobMatch(Tail(p), s) \/ (s # <<>> /\ GlobMatch(p, Tail(s)))
    ELSE IF Head(p) = "?" THEN s # <<>> /\ GlobMatch(Tail(p), Tail(s))
    ELSE s # <<>> /\ Head(s) = Head(p) /\ GlobMatch(Tail(p), Tail(s))

\* an optional numeric option: omitted, a number, or a value that is no number
Omitted == [k |-> "omitted", v |-> 0]
NotANumber == [k |-> "other", v |-> 0]
Number(n) == [k |-> "number", v |-> n]
\* ttl options of memoize and initialize
TtlInputs == {Omitted, NotANumber, Number(0), Number(2)}
\* prefetchRatio options of initialize, in thousandths
RatioInputs == {Omitted, Number(500)}
\* redis options: "none" (missing), "bad" (an object without status), "R" (the client)
RedisInputs == {"none", "bad", "R"}

----------------------------------------------------------------------------
(* State *)

VARIABLES
    preset,            \* part_001 presets: redisObject, redisTtl, redisPrefetchRatio, logsDisabled
    memoizedFunctions, \* part_001 registration table: name -> registration
    prefetchTimeouts,  \* part_001 timer table: key -> timer
    idx,               \* index.js module state: cacheObject, cacheTtl, memoizedFunctions
    returned,          \* what memoize has returned so far, and the last call's result
    redisStatus,       \* redis.status of the client "R"
    store,             \* the store's keyspace: key -> entry
    calls,             \* wrapper invocations
    staleTasks,        \* markDataStale runs, per key
    invalidations,     \* clearCache runs
    env                \* clock and budgets, and the record of what was issued and logged

vars == <<preset, memoizedFunctions, prefetchTimeouts, idx, returned, redisStatus, store,
          calls, staleTasks, invalidations, env>>

NoEntry == [present |-> FALSE, text |-> <<>>, ttl |-> 0, data |-> Null]
\* a key's slot of the timer table: the timeout it refers to (st, left: ms until due),
\* and lost, the number of timeouts still pending in the runtime that the table no
\* longer refers to
NoTimer == [st |-> "none", left |-> 0, lost |-> 0]
NoReg == [registered |-> FALSE, ttl |-> 0, redis |-> "none"]
NoOutcome == [kind |-> "none", val |-> Null, err |-> ""]
Resolved(x) == [kind |-> "ok", val |-> x, err |-> ""]
Rejected(e) == [kind |-> "err", val |-> Null, err |-> e]
Thrown(e) == [kind |-> "throw", val |-> Null, err |-> e]
NoReply == [ok |-> TRUE, hit |-> FALSE, text |-> <<>>, data |-> Null, ttl |-> 0]
IdleCall ==
    [pc |-> "idle", via |-> "", name |-> <<>>, key |-> <<>>, live |-> FALSE, path |-> "",
     reply |-> NoReply, fcalls |-> 0, first |-> NoOutcome, outcome |-> NoOutcome, ops |-> {},
     bg |-> "none", wr |-> "none", wdata |-> Null, kabsent |-> FALSE, args |-> <<>>]
IdleStale == [pc |-> "idle", reply |-> NoReply, data |-> Null]
IdleInvalidation ==
    [pc |-> "idle", name |-> <<>>, glob |-> <<>>, ok |-> TRUE, keys |-> {}, live |-> FALSE]

Init ==
    /\ preset = [redisObject |-> "none", redisTtl |-> Number(DEFAULT_TTL),
                 redisPrefetchRatio |-> DEFAULT_PREFETCH_RATIO,
                 logsDisabled |-> DEFAULT_LOGS_DISABLED]
    /\ memoizedFunctions = [n \in Names |-> NoReg]
    /\ prefetchTimeouts = [k \in Keys |-> NoTimer]
    /\ idx = [cacheObject |-> "none", cacheTtl |-> Number(DEFAULT_TTL),
              memoizedFunctions |-> [n \in Names |-> NoReg]]
    /\ returned = [handles |-> {}, last |-> "none"]
    /\ redisStatus \in {"ready", "connecting"}
    /\ store = [k \in Keys |-> NoEntry]
    /\ calls = [c \in 1..MaxCalls |-> IdleCall]
    /\ staleTasks = [k \in Keys |-> IdleStale]
    /\ invalidations = [i \in 1..MaxInvalidations |-> IdleInvalidation]
    /\ env = [faults |-> 0, flips |-> 0, setups |-> 0, downOps |-> {}, logged |-> {},
              uncaught |-> FALSE]

----------------------------------------------------------------------------
(* part_001: private methods *)

\* the process runs until an exception that nothing catches ends it
Running == ~env.uncaught

\* the log messages the model keeps on record
RecordedMessages == {"WARNING: saved item to cache with no TTL", "No cache object provided"}

\* log(): the messages handed to the private log method (muted on the console
\* while logsDisabled)
Log(e, msg) == [e EXCEPT !.logged = @ \cup ({msg} \cap RecordedMessages)]

\* isValidRedisObject(redis): redis && !!redis.status
isValidRedisObject(redis) == redis = "R"

\* isRedisActive(redis): redis && redis.status === 'ready'
isRedisActive(redis) == redis = "R" /\ redisStatus = "ready"

\* verifyFunctionCanBeMemoized as it would be without the check of the registration table
verifyFunctionCanBeMemoized_NoDuplicateCheck(fn, ttl, table) ==
    IF ~fn.callable THEN "Can only memoize functions"
    ELSE IF fn.name = <<>> THEN "Cannot memoize anonymous functions"
    ELSE IF ~(ttl.k = "number" /\ ttl.v > 0) THEN "ttl must be of type number with value greater than 0"
    ELSE ""

\* the checks of verifyFunctionCanBeMemoized in order: the error thrown, or "" for none
verifyFunctionCanBeMemoized(fn, ttl, table) ==
    IF ~fn.callable THEN "Can only memoize functions"
    ELSE IF fn.name = <<>> THEN "Cannot memoize anonymous functions"
    ELSE IF ~(ttl.k = "number" /\ ttl.v > 0) THEN "ttl must be of type number with value greater than 0"
    ELSE IF fn.name \in DOMAIN table /\ table[fn.name].registered
         THEN "Cannot memoize two functions with the same name"
    ELSE ""

\* a default parameter value applies when the option is omitted
OrDefault(opt, dflt) == IF opt.k = "omitted" THEN Number(dflt) ELSE opt

\* String(data) of a primitive, as the client sends it to the store
StringOf(data) ==
    CASE data.t = "str" -> data.s
      [] data.t = "num" -> NumText(data.n)
      [] OTHER -> JSONstringify(data)

\* const cacheData = typeof data === 'object' ? JSON.stringify(data) : data
CacheData(data) == IF TypeofObject(data) THEN JSONstringify(data) ELSE StringOf(data)

\* shouldRefresh as it would be without the marker test: no data counts as stale
shouldRefresh_IgnoresMarker(data) == FALSE

\* Tells us if cache data is "stale": !!data[REQUEST_RESET_KEY]
shouldRefresh(data) == Truthy(GetProp(data, REQUEST_RESET_KEY))

\* the bookkeeping of one store command: a rejected command uses up the fault budget,
\* and a command issued while the connection is not ready is put on record
Issue(e, who, op, ok) ==
    [e EXCEPT !.faults = IF ok THEN @ ELSE @ + 1,
              !.downOps = IF redisStatus = "ready" THEN @ ELSE @ \cup {<<who, op>>}]

MayFail(ok) == ok \/ env.faults < MaxFaults

\* redis.get(key): the stored text, or null
RedisGet(key, ok) ==
    [ok |-> ok, hit |-> ok /\ store[key].present,
     text |-> IF ok THEN store[key].text ELSE <<>>,
     data |-> IF ok THEN store[key].data ELSE Null, ttl |-> 0]

\* redis.ttl(key): seconds left, -1 without expiry, -2 when the key is absent
RedisTtl(key, ok) ==
    [ok |-> ok, hit |-> FALSE, text |-> <<>>, data |-> Null,
     ttl |-> IF ~ok THEN 0 ELSE IF ~store[key].present THEN -2 ELSE store[key].ttl]

\* redis.set(key, text, 'ex', ttl), and redis.set(key, text) when ttl = -1
RedisSet(st, key, text, ttl, data) ==
    [st EXCEPT ![key] = [present |-> TRUE, text |-> text, ttl |-> ttl, data |-> data]]

\* redis.del(key)
RedisDel(st, key) == [st EXCEPT ![key] = NoEntry]

\* readFromRedis's .then: JSON.parse(result), or the raw result when parsing throws
ReadResult(reply) ==
    IF ~reply.hit THEN Null
    ELSE IF JSONparse(reply.text).ok THEN JSONparse(reply.text).val
    ELSE Str(reply.text)

\* Clears an existing refresh timeout
clearPrefetchTimeout(timers, key) ==
    [timers EXCEPT ![key] = [NoTimer EXCEPT !.lost = timers[key].lost]]

\* setPrefetchTimeout as it would be without the clearPrefetchTimeout of an existing
\* timeout: the slot is overwritten while its timeout is pending
setPrefetchTimeout_NoClear(timers, key, ttl) ==
    [timers EXCEPT ![key] =
        [st |-> "armed", left |-> ttl * preset.redisPrefetchRatio,
         lost |-> @.lost + IF @.st = "armed" THEN 1 ELSE 0]]

\* Sets a timeout to mark a cache key's data as stale: ttl * redisPrefetchRatio * 1000 ms
setPrefetchTimeout(timers, key, ttl) ==
    LET cleared == IF timers[key].st # "none" THEN clearPrefetchTimeout(timers, key) ELSE timers
    IN  [cleared EXCEPT ![key] =
             [st |-> "armed", left |-> ttl * preset.redisPrefetchRatio,
              lost |-> @.lost + IF @.st = "armed" THEN 1 ELSE 0]]

\* writeToRedis as it would be with a set that leaves an existing entry alone (NX)
writeToRedis_KeepsExisting(redis, key, data, ttl, ok) ==
    IF ~isRedisActive(redis) THEN [store |-> store, wr |-> "skipped", issued |-> FALSE]
    ELSE IF ok THEN [store |-> IF store[key].present THEN store
                               ELSE RedisSet(store, key, CacheData(data), ttl, data),
                     wr |-> "set", issued |-> TRUE]
    ELSE [store |-> store, wr |-> "failed", issued |-> TRUE]

\* writeToRedis({ redis, key, data, ttl }) with a ttl: what the store holds afterwards
\* and what becomes of the write ("skipped": redis not active, "set": awaiting the
\* reply, "failed": the set was rejected and nothing handles the rejection)
writeToRedis(redis, key, data, ttl, ok) ==
    IF ~isRedisActive(redis) THEN [store |-> store, wr |-> "skipped", issued |-> FALSE]
    ELSE IF ok THEN [store |-> RedisSet(store, key, CacheData(data), ttl, data), wr |-> "set",
                     issued |-> TRUE]
    ELSE [store |-> store, wr |-> "failed", issued |-> TRUE]

\* deleteFromRedis as it would be with the test of isRedisActive ahead of
\* clearPrefetchTimeout(key)
deleteFromRedis_ClearsWhenActive(redis, key, ok) ==
    [timers |-> IF isRedisActive(redis) THEN clearPrefetchTimeout(prefetchTimeouts, key)
                ELSE prefetchTimeouts,
     store |-> IF isRedisActive(redis) /\ ok THEN RedisDel(store, key) ELSE store,
     issued |-> isRedisActive(redis)]

\* deleteFromRedis as it would be without its clearPrefetchTimeout(key)
deleteFromRedis_KeepsTimer(redis, key, ok) ==
    [timers |-> prefetchTimeouts,
     store |-> IF isRedisActive(redis) /\ ok THEN RedisDel(store, key) ELSE store,
     issued |-> isRedisActive(redis)]

\* deleteFromRedis({ redis, key }): the timer goes in any case, the key when redis is active
deleteFromRedis(redis, key, ok) ==
    [timers |-> clearPrefetchTimeout(prefetchTimeouts, key),
     store |-> IF isRedisActive(redis) /\ ok THEN RedisDel(store, key) ELSE store,
     issued |-> isRedisActive(redis)]

----------------------------------------------------------------------------
(* part_001: public methods *)

\* initialize({ redis, ttl, prefetchRatio })
initialize(redis, ttl, ratio) ==
    /\ Running
    /\ env.setups < MaxSetups
    /\ returned' = [returned EXCEPT !.last =
            IF redis = "none" THEN "No redis object provided to setCache"
            ELSE IF ~isValidRedisObject(redis) THEN "Invalid redis object provided to setCache"
            ELSE "initialized"]
    /\ IF isValidRedisObject(redis)
       THEN /\ preset' = [preset EXCEPT !.redisObject = redis,
                                        !.redisTtl = OrDefault(ttl, DEFAULT_TTL),
                                        !.redisPrefetchRatio = OrDefault(ratio, DEFAULT_PREFETCH_RATIO).v]
            /\ env' = Log([env EXCEPT !.setups = @ + 1], "Redis memoization initialized!")
       ELSE /\ env' = [env EXCEPT !.setups = @ + 1]
            /\ UNCHANGED preset
    /\ UNCHANGED <<memoizedFunctions, prefetchTimeouts, idx, redisStatus, store, calls,
                   staleTasks, invalidations>>

\* memoize as it would be with the validation ahead of the test for a store
memoize_ValidatesFirst(fn, redisOpt, ttlOpt) ==
    LET redis == IF redisOpt = "none" THEN preset.redisObject ELSE redisOpt
        ttl == IF ttlOpt.k = "omitted" THEN preset.redisTtl ELSE ttlOpt
        error == verifyFunctionCanBeMemoized(fn, ttl, memoizedFunctions)
    IN  /\ Running
        /\ env.setups < MaxSetups
        /\ IF error # ""
           THEN /\ returned' = [returned EXCEPT !.last = error]
                /\ env' = [env EXCEPT !.setups = @ + 1]
                /\ UNCHANGED memoizedFunctions
           ELSE IF redis = "none"
           THEN /\ returned' = [handles |-> returned.handles \cup
                                    {[kind |-> "original", name |-> fn.name]},
                                last |-> "original"]
                /\ env' = Log([env EXCEPT !.setups = @ + 1], "No cache object provided")
                /\ UNCHANGED memoizedFunctions
           ELSE /\ memoizedFunctions' = [memoizedFunctions EXCEPT ![fn.name] =
                        [registered |-> TRUE, ttl |-> ttl.v, redis |-> redis]]
                /\ returned' = [handles |-> returned.handles \cup {[kind |-> "memo", name |-> fn.name]},
                                last |-> "wrapper"]
                /\ env' = [env EXCEPT !.setups = @ + 1]
        /\ UNCHANGED <<preset, prefetchTimeouts, idx, redisStatus, store, calls, staleTasks,
                       invalidations>>

\* memoize(thenableFunction, { redis = redisObject, ttl = redisTtl })
memoize(fn, redisOpt, ttlOpt) ==
    LET redis == IF redisOpt = "none" THEN preset.redisObject ELSE redisOpt
        ttl == IF ttlOpt.k = "omitted" THEN preset.redisTtl ELSE ttlOpt
        error == verifyFunctionCanBeMemoized(fn, ttl, memoizedFunctions)
    IN  /\ Running
        /\ env.setups < MaxSetups
        /\ IF redis = "none"
           THEN /\ returned' = [handles |-> returned.handles \cup
                                    (IF fn.callable THEN {[kind |-> "original", name |-> fn.name]} ELSE {}),
                                last |-> "original"]
                /\ env' = Log([env EXCEPT !.setups = @ + 1], "No cache object provided")
                /\ UNCHANGED memoizedFunctions
           ELSE IF error # ""
           THEN /\ returned' = [returned EXCEPT !.last = error]
                /\ env' = [env EXCEPT !.setups = @ + 1]
                /\ UNCHANGED memoizedFunctions
           ELSE /\ memoizedFunctions' = [memoizedFunctions EXCEPT ![fn.name] =
                        [registered |-> TRUE, ttl |-> ttl.v, redis |-> redis]]
                /\ returned' = [handles |-> returned.handles \cup {[kind |-> "memo", name |-> fn.name]},
                                last |-> "wrapper"]
                \* the startup log armed here only logs: it is left out
                /\ env' = [env EXCEPT !.setups = @ + 1]
        /\ UNCHANGED <<preset, prefetchTimeouts, idx, redisStatus, store, calls, staleTasks,
                       invalidations>>

\* the first slot not yet used
FreeSlot(c) == calls[c].pc = "idle" /\ \A d \in 1..(c - 1) : calls[d].pc # "idle"

\* a call of the function memoize returned unchanged: the operation itself runs
CallOriginal(c, name) ==
    /\ Running
    /\ FreeSlot(c)
    /\ [kind |-> "original", name |-> name] \in returned.handles
    /\ calls' = [calls EXCEPT ![c] = [IdleCall EXCEPT !.pc = "f", !.via = "original", !.fcalls = 1,
                                                      !.name = name, !.path = "original"]]
    /\ UNCHANGED <<preset, memoizedFunctions, prefetchTimeouts, idx, returned, redisStatus, store,
                   staleTasks, invalidations, env>>

\* memoizedMethod(): up to the read being issued
memoizedMethod(c, name, args) ==
    /\ FreeSlot(c)
    /\ [kind |-> "memo", name |-> name] \in returned.handles
    /\ LET reg == memoizedFunctions[name]
           key == generateRedisKey([callable |-> TRUE, name |-> name], args)
           call == [IdleCall EXCEPT !.via = "memo", !.name = name, !.key = key]
       IN  IF ~isRedisActive(reg.redis)
           THEN /\ calls' = [calls EXCEPT ![c] = [call EXCEPT !.pc = "f", !.path = "bypass",
                                                              !.fcalls = 1]]
                /\ env' = Log(env, "Bypassing cache")
           ELSE \E ok \in BOOLEAN :
                /\ MayFail(ok)
                /\ calls' = [calls EXCEPT ![c] = [call EXCEPT !.pc = "get", !.live = TRUE,
                                                              !.ops = {"get"},
                                                              !.reply = RedisGet(key, ok)]]
                /\ env' = Issue(env, "memoizedMethod", "get", ok)
    /\ UNCHANGED <<preset, memoizedFunctions, prefetchTimeouts, idx, returned, redisStatus, store,
                   staleTasks, invalidations>>

\* the handlers of the read as they would be without the outer .catch: a rejected read
\* rejects the wrapper's promise
OnRedisResponse_RejectsOnReadFailure(c) ==
    /\ calls[c].pc = "get"
    /\ LET redisResponse == ReadResult(calls[c].reply)
           call == [calls[c] EXCEPT !.reply = NoReply]
       IN  calls' = [calls EXCEPT ![c] =
               IF ~calls[c].reply.ok
               THEN [call EXCEPT !.pc = "done", !.path = "fallback",
                                 !.outcome = Rejected("redis.get rejected")]
               ELSE IF ~Truthy(redisResponse)
               THEN [call EXCEPT !.pc = "f", !.path = "miss", !.fcalls = 1]
               ELSE IF shouldRefresh(redisResponse)
               THEN [call EXCEPT !.pc = "done", !.path = "stale", !.bg = "f",
                                 !.outcome = Resolved(redisResponse)]
               ELSE [call EXCEPT !.pc = "done", !.path = "hit",
                                 !.outcome = Resolved(redisResponse)]]
    /\ UNCHANGED <<preset, memoizedFunctions, prefetchTimeouts, idx, returned, redisStatus, store,
                   staleTasks, invalidations, env>>

\* memoizedMethod's handlers of the read: the .then on a response, the outer .catch on a
\* rejected read
OnRedisResponse(c) ==
    /\ calls[c].pc = "get"
    /\ LET redisResponse == ReadResult(calls[c].reply)
           call == [calls[c] EXCEPT !.reply = NoReply]
       IN  IF ~calls[c].reply.ok
           THEN /\ calls' = [calls EXCEPT ![c] = [call EXCEPT !.pc = "f", !.path = "fallback",
                                                              !.fcalls = 1]]
                /\ env' = Log(env, "Redis failure!")
           ELSE /\ calls' = [calls EXCEPT ![c] =
                       IF ~Truthy(redisResponse)
                       THEN [call EXCEPT !.pc = "f", !.path = "miss", !.fcalls = 1]
                       ELSE IF shouldRefresh(redisResponse)
                       THEN [call EXCEPT !.pc = "done", !.path = "stale", !.bg = "f",
                                         !.outcome = Resolved(redisResponse)]
                       ELSE [call EXCEPT !.pc = "done", !.path = "hit",
                                         !.outcome = Resolved(redisResponse)]]
                /\ UNCHANGED env
    /\ UNCHANGED <<preset, memoizedFunctions, prefetchTimeouts, idx, returned, redisStatus, store,
                   staleTasks, invalidations>>

\* the outcomes of one invocation of the wrapped operation
FnOutcomes == {Resolved(r) : r \in Results} \cup {Rejected(e) : e \in Errors}

\* the wrapped operation settles on the caller's path
OnFunctionSettled(c) ==
    /\ Running
    /\ calls[c].pc = "f"
    /\ \E out \in FnOutcomes, ok \in BOOLEAN :
       LET call == [calls[c] EXCEPT !.first = IF @ = NoOutcome THEN out ELSE @]
           reg == memoizedFunctions[call.name]
           w == writeToRedis(reg.redis, call.key, out.val, reg.ttl, ok)
           d == deleteFromRedis(reg.redis, call.key, ok)
       IN  IF call.path # "miss"
           THEN \* the operation was invoked directly: its outcome is the wrapper's
                /\ ok
                /\ calls' = [calls EXCEPT ![c] = [call EXCEPT !.pc = "done", !.outcome = out,
                                !.kabsent = call.key \in Keys /\ ~store[call.key].present]]
                /\ UNCHANGED <<store, prefetchTimeouts, env>>
           ELSE IF out.kind = "ok"
           THEN \* .then((data) => { writeToRedis({ redis, key, data, ttl }); return data; })
                /\ IF w.issued THEN MayFail(ok) ELSE ok
                /\ calls' = [calls EXCEPT ![c] = [call EXCEPT !.pc = "done", !.outcome = out,
                                                              !.wr = w.wr, !.wdata = out.val,
                                                              !.ops = IF w.issued THEN @ \cup {"set"} ELSE @]]
                /\ store' = w.store
                /\ env' = IF w.issued THEN Issue(env, "memoizedMethod", "set", ok) ELSE env
                /\ UNCHANGED prefetchTimeouts
           ELSE \* .catch((error) => { deleteFromRedis({ redis, key }); return PromiseUtil.reject(error); })
                \* the rejection reaches the outer .catch, which invokes the operation again
                /\ IF d.issued THEN MayFail(ok) ELSE ok
                /\ calls' = [calls EXCEPT ![c] = [call EXCEPT !.pc = "f", !.path = "retry",
                                                              !.fcalls = @ + 1,
                                                              !.ops = IF d.issued THEN @ \cup {"del"} ELSE @]]
                /\ store' = d.store
                /\ prefetchTimeouts' = d.timers
                /\ env' = Log(IF d.issued THEN Issue(env, "memoizedMethod", "del", ok) ELSE env,
                              "Redis failure!")
    /\ UNCHANGED <<preset, memoizedFunctions, idx, returned, redisStatus, staleTasks, invalidations>>

\* the background invocation of a stale hit settles
OnRefreshSettled(c) ==
    /\ calls[c].bg = "f"
    /\ \E out \in FnOutcomes, ok \in BOOLEAN :
       LET call == calls[c]
           reg == memoizedFunctions[call.name]
           w == writeToRedis(reg.redis, call.key, out.val, reg.ttl, ok)
       IN  IF out.kind = "ok"
           THEN /\ IF w.issued THEN MayFail(ok) ELSE ok
                /\ calls' = [calls EXCEPT ![c] = [call EXCEPT !.bg = "done", !.wr = w.wr,
                                                              !.wdata = out.val,
                                                              !.ops = IF w.issued THEN @ \cup {"set"} ELSE @]]
                /\ store' = w.store
                /\ env' = IF w.issued THEN Issue(env, "memoizedMethod", "set", ok) ELSE env
           ELSE \* nothing handles the rejection
                /\ ok
                /\ calls' = [calls EXCEPT ![c] = [call EXCEPT !.bg = "rejected"]]
                /\ UNCHANGED <<store, env>>
    /\ UNCHANGED <<preset, memoizedFunctions, prefetchTimeouts, idx, returned, redisStatus,
                   staleTasks, invalidations>>

\* writeToRedis's .then(() => setPrefetchTimeout({ redis, key, ttl })) on the set's reply
OnSetReply(c) ==
    /\ calls[c].wr = "set"
    /\ calls' = [calls EXCEPT ![c].wr = "armed"]
    /\ prefetchTimeouts' = setPrefetchTimeout(prefetchTimeouts, calls[c].key,
                                              memoizedFunctions[calls[c].name].ttl)
    /\ UNCHANGED <<preset, memoizedFunctions, idx, returned, redisStatus, store, staleTasks,
                   invalidations, env>>

\* clearMemoizedFunctionCache(locatorString): up to the scan being issued
clearMemoizedFunctionCache(i, name, locatorString) ==
    /\ invalidations[i].pc = "idle"
    /\ \A j \in 1..(i - 1) : invalidations[j].pc # "idle"
    /\ [kind |-> "memo", name |-> name] \in returned.handles
    /\ \E ok \in BOOLEAN :
       LET glob == name \o <<":", "*">> \o (IF locatorString # <<>> THEN locatorString \o <<"*">> ELSE <<>>)
       IN  /\ MayFail(ok)
           /\ invalidations' = [invalidations EXCEPT ![i] =
                  [pc |-> "keys", name |-> name, glob |-> glob, ok |-> ok,
                   keys |-> IF ok THEN {k \in Keys : store[k].present /\ GlobMatch(glob, k)} ELSE {},
                   live |-> redisStatus = "ready"]]
           /\ env' = Issue(env, "clearCache", "keys", ok)
    /\ UNCHANGED <<preset, memoizedFunctions, prefetchTimeouts, idx, returned, redisStatus, store,
                   calls, staleTasks>>

\* clearMemoizedFunctionCache's .then: keys.forEach(key => deleteFromRedis({ redis, key }))
OnKeysReply(i) ==
    /\ invalidations[i].pc = "keys"
    /\ LET inv == invalidations[i]
           redis == memoizedFunctions[inv.name].redis
       IN  \E bad \in SUBSET inv.keys :
           /\ Cardinality(bad) + env.faults <= MaxFaults
           /\ isRedisActive(redis) \/ bad = {}
           /\ invalidations' = [invalidations EXCEPT ![i] =
                  [inv EXCEPT !.pc = IF inv.ok THEN "done" ELSE "rejected",
                              !.live = isRedisActive(redis)]]
           /\ prefetchTimeouts' = [k \in Keys |->
                  IF k \in inv.keys THEN deleteFromRedis(redis, k, k \notin bad).timers[k]
                  ELSE prefetchTimeouts[k]]
           /\ store' = [k \in Keys |->
                  IF k \in inv.keys THEN deleteFromRedis(redis, k, k \notin bad).store[k]
                  ELSE store[k]]
           /\ env' = [env EXCEPT !.faults = @ + Cardinality(bad)]
    /\ UNCHANGED <<preset, memoizedFunctions, idx, returned, redisStatus, calls, staleTasks>>

----------------------------------------------------------------------------
(* part_001: the refresh timer *)

\* the timeout set by setPrefetchTimeout fires: markDataStale({ redis, key }) issues its read
TimerFire(k) ==
    /\ prefetchTimeouts[k].st = "armed"
    /\ prefetchTimeouts[k].left = 0
    /\ staleTasks[k].pc = "idle"
    /\ \E ok \in BOOLEAN :
       /\ MayFail(ok)
       /\ staleTasks' = [staleTasks EXCEPT ![k] = [pc |-> "get", reply |-> RedisGet(k, ok),
                                                   data |-> Null]]
       /\ env' = Issue(env, "markDataStale", "get", ok)
    /\ prefetchTimeouts' = [prefetchTimeouts EXCEPT ![k].st = "fired"]
    /\ UNCHANGED <<preset, memoizedFunctions, idx, returned, redisStatus, store, calls,
                   invalidations>>

\* markDataStale's .then as it would be without its if (data): whatever was read is
\* handed to writeToRedis
OnStaleRead_NoPresenceTest(k) ==
    /\ staleTasks[k].pc = "get"
    /\ LET data == ReadResult(staleTasks[k].reply)
       IN  IF staleTasks[k].reply.ok /\ isRedisActive("R")
           THEN \E ok \in BOOLEAN :
                /\ MayFail(ok)
                /\ staleTasks' = [staleTasks EXCEPT ![k] =
                       [pc |-> "ttl", reply |-> RedisTtl(k, ok),
                        data |-> SetTrue(data, REQUEST_RESET_KEY)]]
                /\ env' = Issue(env, "markDataStale", "ttl", ok)
           ELSE /\ staleTasks' = [staleTasks EXCEPT ![k] = IdleStale]
                /\ UNCHANGED env
    /\ UNCHANGED <<preset, memoizedFunctions, prefetchTimeouts, idx, returned, redisStatus, store,
                   calls, invalidations>>

\* markDataStale's .then: mark the data and hand it to writeToRedis without a ttl, which
\* asks for the key's ttl first
OnStaleRead(k) ==
    /\ staleTasks[k].pc = "get"
    /\ LET data == ReadResult(staleTasks[k].reply)
       IN  IF staleTasks[k].reply.ok /\ Truthy(data) /\ isRedisActive("R")
           THEN \E ok \in BOOLEAN :
                /\ MayFail(ok)
                /\ staleTasks' = [staleTasks EXCEPT ![k] =
                       [pc |-> "ttl", reply |-> RedisTtl(k, ok),
                        data |-> SetTrue(data, REQUEST_RESET_KEY)]]
                /\ env' = Issue(env, "markDataStale", "ttl", ok)
           ELSE /\ staleTasks' = [staleTasks EXCEPT ![k] = IdleStale]
                /\ UNCHANGED env
    /\ UNCHANGED <<preset, memoizedFunctions, prefetchTimeouts, idx, returned, redisStatus, store,
                   calls, invalidations>>

\* the rewrite as it would be with the preset TTL in place of the TTL read
OnItemTtl_PresetTtl(k) ==
    /\ staleTasks[k].pc = "ttl"
    /\ LET task == staleTasks[k]
           itemTtl == task.reply.ttl
       IN  IF ~task.reply.ok
           THEN UNCHANGED <<store, env>>
           ELSE \E ok \in BOOLEAN :
                /\ MayFail(ok)
                /\ store' = IF ~ok THEN store
                            ELSE RedisSet(store, k, CacheData(task.data), preset.redisTtl.v, task.data)
                /\ env' = Issue(env, "markDataStale", "set", ok)
    /\ staleTasks' = [staleTasks EXCEPT ![k] = IdleStale]
    /\ UNCHANGED <<preset, memoizedFunctions, prefetchTimeouts, idx, returned, redisStatus, calls,
                   invalidations>>

\* writeToRedis's .then((itemTtl) => ...): rewrite with the ttl read, or without expiry
OnItemTtl(k) ==
    /\ staleTasks[k].pc = "ttl"
    /\ LET task == staleTasks[k]
           itemTtl == task.reply.ttl
       IN  IF ~task.reply.ok
           THEN UNCHANGED <<store, env>>
           ELSE \E ok \in BOOLEAN :
                /\ MayFail(ok)
                /\ store' = IF ~ok THEN store
                            ELSE IF itemTtl > 0
                            THEN RedisSet(store, k, CacheData(task.data), itemTtl, task.data)
                            ELSE RedisSet(store, k, CacheData(task.data), -1, task.data)
                /\ env' = IF itemTtl > 0 THEN Issue(env, "markDataStale", "set", ok)
                          ELSE Log(Issue(env, "markDataStale", "set", ok),
                                   "WARNING: saved item to cache with no TTL")
    /\ staleTasks' = [staleTasks EXCEPT ![k] = IdleStale]
    /\ UNCHANGED <<preset, memoizedFunctions, prefetchTimeouts, idx, returned, redisStatus, calls,
                   invalidations>>

----------------------------------------------------------------------------
(* The environment: the clock and the connection *)

\* one second passes: ttls count down and keys expire, timeouts come due
Tick ==
    /\ store' = [k \in Keys |->
           IF store[k].present /\ store[k].ttl = 1 THEN NoEntry
           ELSE IF store[k].present /\ store[k].ttl > 1 THEN [store[k] EXCEPT !.ttl = @ - 1]
           ELSE store[k]]
    /\ prefetchTimeouts' = [k \in Keys |->
           IF prefetchTimeouts[k].st = "armed"
           THEN [prefetchTimeouts[k] EXCEPT !.left = IF @ > 1000 THEN @ - 1000 ELSE 0]
           ELSE prefetchTimeouts[k]]
    /\ UNCHANGED <<preset, memoizedFunctions, idx, returned, redisStatus, calls, staleTasks,
                   invalidations, env>>

\* redis.status changes: the connection drops or becomes ready
StatusChange ==
    /\ env.flips < MaxFlips
    /\ env' = [env EXCEPT !.flips = @ + 1]
    /\ redisStatus' = IF redisStatus = "ready" THEN "connecting" ELSE "ready"
    /\ UNCHANGED <<preset, memoizedFunctions, prefetchTimeouts, idx, returned, store, calls,
                   staleTasks, invalidations>>

----------------------------------------------------------------------------
(* index.js: the generalized variant *)

\* isCacheActive() reads `cache`, which no scope of index.js declares: evaluating it
\* throws a ReferenceError
isCacheActive == "ReferenceError: cache is not defined"

\* initialize({ cache, ttl })
IdxInitialize(cache, ttl) ==
    /\ Running
    /\ env.setups < MaxSetups
    /\ returned' = [returned EXCEPT !.last =
            IF cache = "none" THEN "No cache object provided to setCache"
            ELSE IF ~isValidRedisObject(cache) THEN "Invalid cache object provided to setCache"
            ELSE "initialized"]
    /\ IF isValidRedisObject(cache)
       THEN /\ idx' = [idx EXCEPT !.cacheObject = cache, !.cacheTtl = OrDefault(ttl, DEFAULT_TTL)]
            /\ env' = Log([env EXCEPT !.setups = @ + 1], "Redis memoization initialized!")
       ELSE /\ env' = [env EXCEPT !.setups = @ + 1]
            /\ UNCHANGED idx
    /\ UNCHANGED <<preset, memoizedFunctions, prefetchTimeouts, redisStatus, store, calls,
                   staleTasks, invalidations>>

\* memoize(thenableFunction, { cache = cacheObject, ttl = cacheTtl })
IdxMemoize(fn, cacheOpt, ttlOpt) ==
    LET cache == IF cacheOpt = "none" THEN idx.cacheObject ELSE cacheOpt
        ttl == IF ttlOpt.k = "omitted" THEN idx.cacheTtl ELSE ttlOpt
        error == verifyFunctionCanBeMemoized(fn, ttl, idx.memoizedFunctions)
    IN  /\ Running
        /\ env.setups < MaxSetups
        /\ IF cache = "none"
           THEN /\ returned' = [handles |-> returned.handles \cup
                                    (IF fn.callable THEN {[kind |-> "original", name |-> fn.name]} ELSE {}),
                                last |-> "original"]
                /\ env' = Log([env EXCEPT !.setups = @ + 1], "No cache object provided")
                /\ UNCHANGED idx
           ELSE IF error # ""
           THEN /\ returned' = [returned EXCEPT !.last = error]
                /\ env' = [env EXCEPT !.setups = @ + 1]
                /\ UNCHANGED idx
           ELSE /\ idx' = [idx EXCEPT !.memoizedFunctions[fn.name] =
                        [registered |-> TRUE, ttl |-> ttl.v, redis |-> cache]]
                /\ returned' = [handles |-> returned.handles \cup {[kind |-> "idx-memo", name |-> fn.name]},
                                last |-> "wrapper"]
                /\ env' = [env EXCEPT !.setups = @ + 1]
        /\ UNCHANGED <<preset, memoizedFunctions, prefetchTimeouts, redisStatus, store, calls,
                       staleTasks, invalidations>>

\* the startup log of index.js's memoize: its isCacheActive() throws inside the timer
\* callback, where nothing catches it; the first one to fire ends the process
IdxStartupLog ==
    /\ Running
    /\ \E n \in Names : idx.memoizedFunctions[n].registered
    /\ env' = [env EXCEPT !.uncaught = TRUE]
    /\ UNCHANGED <<preset, memoizedFunctions, prefetchTimeouts, idx, returned, redisStatus, store,
                   calls, staleTasks, invalidations>>

\* memoizedMethod() of index.js: the key is generated, then isCacheActive() throws
IdxMemoizedMethod(c, name, args) ==
    /\ Running
    /\ FreeSlot(c)
    /\ [kind |-> "idx-memo", name |-> name] \in returned.handles
    /\ calls' = [calls EXCEPT ![c] =
           [IdleCall EXCEPT !.pc = "done", !.via = "idx-memo", !.name = name,
                            !.key = generateRedisKey([callable |-> TRUE, name |-> name], args),
                            !.live = redisStatus = "ready", !.path = "throw",
                            !.outcome = Thrown(isCacheActive)]]
    /\ UNCHANGED <<preset, memoizedFunctions, prefetchTimeouts, idx, returned, redisStatus, store,
                   staleTasks, invalidations, env>>

\* clearCache() of part_001: function clearCache() { }, whatever it is called with
clearCache ==
    /\ Running
    /\ env.setups < MaxSetups
    /\ returned' = [returned EXCEPT !.last = "undefined"]
    /\ env' = [env EXCEPT !.setups = @ + 1]
    /\ UNCHANGED <<preset, memoizedFunctions, prefetchTimeouts, idx, redisStatus, store, calls,
                   staleTasks, invalidations>>

\* clearCache({ methods, locators }) of index.js: its first statement evaluates
\* isCacheActive(), which throws to the caller
IdxClearCache ==
    /\ Running
    /\ env.setups < MaxSetups
    /\ returned' = [returned EXCEPT !.last = isCacheActive]
    /\ env' = [env EXCEPT !.setups = @ + 1]
    /\ UNCHANGED <<preset, memoizedFunctions, prefetchTimeouts, idx, redisStatus, store, calls,
                   staleTasks, invalidations>>

\* the first statement of memoizedMethod, in both variants:
\* const key = generateRedisKey(thenableFunction, arguments)
DeriveKey(c, name, args) ==
    /\ calls[c].pc \in {"idle", "key"}
    /\ calls' = [calls EXCEPT ![c] =
           [IdleCall EXCEPT !.pc = "key", !.name = name, !.args = args,
                            !.key = generateRedisKey([callable |-> TRUE, name |-> name], args)]]
    /\ UNCHANGED <<preset, memoizedFunctions, prefetchTimeouts, idx, returned, redisStatus, store,
                   staleTasks, invalidations, env>>

----------------------------------------------------------------------------
(* The specifications *)

\* SpecSetup: both modules from the moment they are loaded: the configuration calls,
\* what memoize returns, and the calls that never reach the store
NextSetup ==
    \/ \E r \in RedisInputs, t \in {Omitted, Number(2)}, q \in RatioInputs : initialize(r, t, q)
    \/ \E fn \in Fns, r \in {"none", "R"}, t \in TtlInputs : memoize(fn, r, t)
    \/ \E c \in 1..MaxCalls, n \in Names \cup {<<>>} : CallOriginal(c, n)
    \/ \E c \in 1..MaxCalls : OnFunctionSettled(c)
    \/ \E r \in RedisInputs, t \in {Omitted, Number(2)} : IdxInitialize(r, t)
    \/ \E fn \in Fns, r \in {"none", "R"}, t \in TtlInputs : IdxMemoize(fn, r, t)
    \/ IdxStartupLog
    \/ \E c \in 1..MaxCalls, in \in CallInputs : IdxMemoizedMethod(c, in[1], in[2])
    \/ clearCache
    \/ IdxClearCache

SpecSetup == Init /\ [][NextSetup]_vars

\* the state that initialize({ redis, ttl: 2, prefetchRatio: 0.5 }), memoize(f) and
\* memoize(g) of part_001 leave
Configured ==
    /\ preset = [redisObject |-> "R", redisTtl |-> Number(2), redisPrefetchRatio |-> 500,
                 logsDisabled |-> DEFAULT_LOGS_DISABLED]
    /\ memoizedFunctions = [n \in Names |-> [registered |-> TRUE, ttl |-> 2, redis |-> "R"]]
    /\ returned = [handles |-> {[kind |-> "memo", name |-> n] : n \in Names}, last |-> "wrapper"]

\* nothing cached, nothing scheduled, nothing in flight
Quiet ==
    /\ prefetchTimeouts = [k \in Keys |-> NoTimer]
    /\ idx = [cacheObject |-> "none", cacheTtl |-> Number(DEFAULT_TTL),
              memoizedFunctions |-> [n \in Names |-> NoReg]]
    /\ redisStatus \in {"ready", "connecting"}
    /\ store = [k \in Keys |-> NoEntry]
    /\ calls = [c \in 1..MaxCalls |-> IdleCall]
    /\ staleTasks = [k \in Keys |-> IdleStale]
    /\ invalidations = [i \in 1..MaxInvalidations |-> IdleInvalidation]

\* Spec: the caching protocol of part_001 once configured: wrapper invocations, the
\* refresh timer, a store whose commands may be rejected and whose connection may change
InitProtocol ==
    /\ env = [faults |-> 0, flips |-> 0, setups |-> 0, downOps |-> {}, logged |-> {},
              uncaught |-> FALSE]
    /\ Configured
    /\ Quiet

Next ==
    \/ \E c \in 1..MaxCalls, in \in CallInputs : memoizedMethod(c, in[1], in[2])
    \/ \E c \in 1..MaxCalls : OnRedisResponse(c)
    \/ \E c \in 1..MaxCalls : OnFunctionSettled(c)
    \/ \E c \in 1..MaxCalls : OnRefreshSettled(c)
    \/ \E c \in 1..MaxCalls : OnSetReply(c)
    \/ \E k \in Keys : TimerFire(k)
    \/ \E k \in Keys : OnStaleRead(k)
    \/ \E k \in Keys : OnItemTtl(k)
    \/ Tick
    \/ StatusChange

Spec == InitProtocol /\ [][Next]_vars

\* SpecInvalidate: the protocol together with clearCache, on a store that rejects no
\* command and whose connection status stays what it is
InitInvalidate ==
    /\ env = [faults |-> MaxFaults, flips |-> MaxFlips, setups |-> 0, downOps |-> {},
              logged |-> {}, uncaught |-> FALSE]
    /\ Configured
    /\ Quiet

NextInvalidate ==
    \/ \E c \in 1..MaxCalls, in \in CallInputs : memoizedMethod(c, in[1], in[2])
    \/ \E c \in 1..MaxCalls : OnRedisResponse(c)
    \/ \E c \in 1..MaxCalls : OnFunctionSettled(c)
    \/ \E c \in 1..MaxCalls : OnRefreshSettled(c)
    \/ \E c \in 1..MaxCalls : OnSetReply(c)
    \/ \E i \in 1..MaxInvalidations, n \in Names, l \in Locators : clearMemoizedFunctionCache(i, n, l)
    \/ \E i \in 1..MaxInvalidations : OnKeysReply(i)
    \/ \E k \in Keys : TimerFire(k)
    \/ \E k \in Keys : OnStaleRead(k)
    \/ \E k \in Keys : OnItemTtl(k)
    \/ Tick

SpecInvalidate == InitInvalidate /\ [][NextInvalidate]_vars

----------------------------------------------------------------------------
(* Claims *)

\* the data carries the staleness marker
Marked(data) == Truthy(GetProp(data, REQUEST_RESET_KEY))

\* C1: with the store live and K absent at first, the first call for K invokes f once
\* and stores its result r under K with the configured TTL, and a later call that
\* reads that entry before it expires returns r without invoking f.  Stated for the
\* entries no timer has marked yet: (1) the miss whose write the store accepts leaves
\* r under K with the TTL of the registration after one invocation, (2) the call whose
\* read finds an unmarked entry written with r is done at once with r and no invocation.
C1_FreshHitServesResult ==
    [][\A c \in 1..MaxCalls :
          /\ (/\ calls[c].pc = "f" /\ calls[c].path = "miss"
              /\ calls'[c].pc = "done" /\ calls'[c].wr = "set")
             => /\ calls'[c].fcalls = 1
                /\ store'[calls[c].key].present
                /\ store'[calls[c].key].data = calls'[c].outcome.val
                /\ store'[calls[c].key].ttl = memoizedFunctions[calls[c].name].ttl
          /\ (/\ calls[c].pc = "get" /\ calls'[c].pc # "get"
              /\ calls[c].reply.hit /\ calls[c].reply.data \in Results)
             => /\ calls'[c].pc = "done"
                /\ calls'[c].outcome = Resolved(calls[c].reply.data)
                /\ calls'[c].fcalls = 0]_vars

\* C2: when f rejects with e on the miss path of a call to a live store, the wrapper
\* rejects with e, and the store holds nothing at K once the call has finished
C2_RejectionPropagates ==
    \A c \in 1..MaxCalls :
        (calls[c].pc = "done" /\ calls[c].via = "memo" /\ calls[c].path = "retry")
        => /\ calls[c].outcome = calls[c].first
           /\ calls[c].kabsent

\* C3: a call that reads a marked entry returns that entry at once, without a caller-path
\* invocation, and starts one background invocation; when that invocation resolves and
\* the store accepts its write, K holds the new result, unmarked, with the configured
\* TTL; a background invocation that has settled is not started again
C3_StaleHitRefreshes ==
    [][\A c \in 1..MaxCalls :
          /\ (/\ calls[c].pc = "get" /\ calls'[c].pc # "get"
              /\ calls[c].reply.hit /\ Marked(ReadResult(calls[c].reply)))
             => /\ calls'[c].pc = "done"
                /\ calls'[c].outcome = Resolved(ReadResult(calls[c].reply))
                /\ calls'[c].fcalls = 0
                /\ calls'[c].bg = "f"
          /\ (calls[c].bg = "f" /\ calls'[c].bg = "done" /\ calls'[c].wr = "set")
             => /\ store'[calls[c].key].present
                /\ store'[calls[c].key].text = CacheData(calls'[c].wdata)
                /\ calls'[c].wdata \in Results
                /\ ~Marked(ReadResult(RedisGet(calls[c].key, TRUE)'))
                /\ store'[calls[c].key].ttl = memoizedFunctions[calls[c].name].ttl
          /\ (calls[c].bg \in {"done", "rejected"}) => calls'[c].bg = calls[c].bg
          /\ (calls[c].bg = "none" /\ calls'[c].bg # "none") => calls[c].pc = "get"]_vars

\* a call served a marked entry whose background result is now stored, unmarked
C3_Witness ==
    \E c \in 1..MaxCalls :
        /\ calls[c].path = "stale" /\ calls[c].bg = "done" /\ calls[c].wr \in {"set", "armed"}
        /\ Marked(calls[c].outcome.val)
        /\ store[calls[c].key].present
        /\ store[calls[c].key].data = calls[c].wdata
        /\ ~Marked(store[calls[c].key].data)

\* C4: no cache-layer error reaches the caller: a call whose read was rejected has issued
\* nothing but that read, invokes f once and ends with exactly f's outcome; a call whose
\* write after a miss was rejected has ended with f's result; and every call that did not
\* end on a cached entry ends with an outcome of f
C4_CacheErrorsStayInside ==
    \A c \in 1..MaxCalls :
        calls[c].via = "memo" =>
            /\ calls[c].path = "fallback" =>
                  /\ calls[c].ops = {"get"}
                  /\ calls[c].fcalls = 1
                  /\ calls[c].pc = "done" =>
                        calls[c].outcome = calls[c].first /\ calls[c].first \in FnOutcomes
            /\ (calls[c].wr = "failed" /\ calls[c].path = "miss") =>
                  /\ calls[c].pc = "done"
                  /\ calls[c].outcome = Resolved(calls[c].wdata)
                  /\ calls[c].outcome = calls[c].first
            /\ (calls[c].pc = "done" /\ calls[c].path \notin {"hit", "stale"}) =>
                  calls[c].outcome \in FnOutcomes

\* a call whose read the store rejected has ended with what f resolved with
C4_Witness ==
    \E c \in 1..MaxCalls :
        /\ calls[c].path = "fallback" /\ calls[c].pc = "done"
        /\ calls[c].outcome.kind = "ok"
        /\ env.faults = 1

\* C5: a wrapper called while the store is not live invokes f directly once, ends with
\* f's outcome unmodified and issues no store command
C5_BypassWhenNotLive ==
    \A c \in 1..MaxCalls :
        (calls[c].via \in {"memo", "idx-memo"} /\ ~calls[c].live /\ calls[c].pc = "done")
        => /\ calls[c].fcalls = 1
           /\ calls[c].outcome = calls[c].first
           /\ calls[c].first \in FnOutcomes
           /\ calls[c].ops = {}

\* C6: no store command is issued while the store is not live
C6_NoCommandWhileNotLive == env.downOps = {}

\* text s contains text sub
Contains(s, sub) == \E i \in 0..(Len(s) - Len(sub)) : SubSeq(s, i + 1, i + Len(sub)) = sub

\* key k belongs to the operation called name and has the locator somewhere after the
\* "<name>:" prefix; every key of the operation when there is no locator
InScope(name, locator, k) ==
    /\ Len(k) > Len(name)
    /\ SubSeq(k, 1, Len(name) + 1) = name \o <<":">>
    /\ Contains(SubSeq(k, Len(name) + 2, Len(k)), locator)

\* C7: clearCache(locator) of an operation on a live store scans exactly the stored keys
\* "<name>:*<locator>*" ("<name>:*" without a locator); when the scan is answered every
\* key it found is deleted and has no refresh timer, and every other key, of the same
\* operation or of another one, keeps its value, its TTL and its timer
C7_InvalidateDeletesExactlyMatches ==
    [][\A i \in 1..MaxInvalidations :
          /\ \A n \in Names, l \in Locators :
                (clearMemoizedFunctionCache(i, n, l) /\ invalidations'[i].ok) =>
                    invalidations'[i].keys = {k \in Keys : store[k].present /\ InScope(n, l, k)}
          /\ (/\ invalidations[i].pc = "keys" /\ invalidations'[i].pc = "done"
              /\ redisStatus = "ready")
             => \A k \in Keys :
                    IF k \in invalidations[i].keys
                    THEN ~store'[k].present /\ prefetchTimeouts'[k] = NoTimer
                    ELSE store'[k] = store[k] /\ prefetchTimeouts'[k] = prefetchTimeouts[k]]_vars

\* clearCache("a") of f has deleted f's key for "a", timer and all, while another stored
\* key still has its value and its timer
C7_Witness ==
    \E i \in 1..MaxInvalidations :
        /\ invalidations[i].pc = "done" /\ invalidations[i].live
        /\ invalidations[i].keys # {}
        /\ \A k \in invalidations[i].keys : ~store[k].present /\ prefetchTimeouts[k] = NoTimer
        /\ \E k \in Keys \ invalidations[i].keys :
              /\ store[k].present /\ prefetchTimeouts[k].st = "armed"
              /\ InScope(invalidations[i].name, <<>>, k)

\* the configuration errors of memoize
ConfigErrors ==
    {"Can only memoize functions", "Cannot memoize anonymous functions",
     "ttl must be of type number with value greater than 0",
     "Cannot memoize two functions with the same name"}

\* what wrap-time validation is to refuse: an operation that is not callable or has no
\* name, a TTL that is not a positive number, a name that is registered already
Refusable(fn, ttl, table) ==
    \/ ~fn.callable
    \/ fn.name = <<>>
    \/ ttl.k # "number"
    \/ ttl.v <= 0
    \/ \E n \in DOMAIN table : n = fn.name /\ table[n].registered

\* the TTL a memoize call works with: the option, or else the preset
EffectiveTtl(ttlOpt, presetTtl) == IF ttlOpt = Omitted THEN presetTtl ELSE ttlOpt

\* a refused memoize call: a configuration error, and nothing registered, handed out or
\* invoked
Refused ==
    /\ returned'.last \in ConfigErrors
    /\ returned'.handles = returned.handles
    /\ memoizedFunctions' = memoizedFunctions
    /\ idx' = idx
    /\ calls' = calls

\* a registration, once made, is never replaced: no name holds two registrations
RegistrationsKept ==
    \A n \in Names :
        /\ memoizedFunctions[n].registered => memoizedFunctions'[n] = memoizedFunctions[n]
        /\ idx.memoizedFunctions[n].registered =>
              idx'.memoizedFunctions[n] = idx.memoizedFunctions[n]

\* C8 as stated: in every configuration state memoize refuses an operation that is not
\* callable or anonymous, a TTL that is not a positive number and a name registered
\* already
C8_ValidationInEveryState ==
    [][/\ \A fn \in Fns, r \in {"none", "R"}, t \in TtlInputs :
             /\ (/\ memoize(fn, r, t)
                 /\ Refusable(fn, EffectiveTtl(t, preset.redisTtl), memoizedFunctions))
                => Refused
             /\ (/\ IdxMemoize(fn, r, t)
                 /\ Refusable(fn, EffectiveTtl(t, idx.cacheTtl), idx.memoizedFunctions))
                => Refused
       /\ RegistrationsKept]_vars

\* C8, amended: whenever a store is configured, passed to memoize or set by an earlier
\* initialize, memoize refuses with a configuration error, registering and invoking
\* nothing, an operation that is not callable or anonymous, a TTL that is not a positive
\* number and a name registered already; and a registration is never replaced
C8_ValidationWhenStoreConfigured ==
    [][/\ \A fn \in Fns, r \in {"none", "R"}, t \in TtlInputs :
             /\ (/\ memoize(fn, r, t)
                 /\ r # "none" \/ preset.redisObject # "none"
                 /\ Refusable(fn, EffectiveTtl(t, preset.redisTtl), memoizedFunctions))
                => Refused
             /\ (/\ IdxMemoize(fn, r, t)
                 /\ r # "none" \/ idx.cacheObject # "none"
                 /\ Refusable(fn, EffectiveTtl(t, idx.cacheTtl), idx.memoizedFunctions))
                => Refused
       /\ RegistrationsKept]_vars

\* memoize has refused a second function of a registered name, and the registration of
\* the first is in place
C8_Witness ==
    /\ returned.last = "Cannot memoize two functions with the same name"
    /\ \E n \in Names : memoizedFunctions[n].registered \/ idx.memoizedFunctions[n].registered

\* C9: with no store configured, neither passed nor set by an earlier initialize, memoize
\* returns the operation itself, registers nothing, hands out no wrapper (so no clearCache
\* entry point) and arms no timer; and a call of the function it returned runs the
\* operation once, ends with its outcome and issues no store command
C9_NoStoreReturnsOriginal ==
    [][/\ \A fn \in Fns, t \in TtlInputs :
             /\ (memoize(fn, "none", t) /\ preset.redisObject = "none")
                => /\ returned'.last = "original"
                   /\ returned'.handles \ returned.handles \subseteq
                          {[kind |-> "original", name |-> fn.name]}
                   /\ memoizedFunctions' = memoizedFunctions
                   /\ prefetchTimeouts' = prefetchTimeouts
                   /\ store' = store
             /\ (IdxMemoize(fn, "none", t) /\ idx.cacheObject = "none")
                => /\ returned'.last = "original"
                   /\ returned'.handles \ returned.handles \subseteq
                          {[kind |-> "original", name |-> fn.name]}
                   /\ idx' = idx
                   /\ prefetchTimeouts' = prefetchTimeouts
                   /\ store' = store
       /\ \A c \in 1..MaxCalls :
             calls'[c].via = "original" =>
                 /\ calls'[c].ops = {}
                 /\ calls'[c].fcalls = 1
                 /\ calls'[c].pc = "done" =>
                       calls'[c].outcome = calls'[c].first /\ calls'[c].first \in FnOutcomes
                 /\ store' = store
                 /\ env'.downOps = env.downOps]_vars

\* with nothing configured and nothing registered, a call of the function memoize
\* returned has ended with the operation's outcome
C9_Witness ==
    /\ preset.redisObject = "none" /\ idx.cacheObject = "none"
    /\ \A n \in Names : ~memoizedFunctions[n].registered /\ ~idx.memoizedFunctions[n].registered
    /\ \E c \in 1..MaxCalls :
          /\ calls[c].via = "original" /\ calls[c].pc = "done"
          /\ calls[c].outcome \in FnOutcomes

\* C10: the write without a TTL, once the key's remaining TTL is read: when the TTL read
\* is t > 0 and the store accepts the set, the key holds the new value with TTL exactly
\* t; when the TTL read is zero or negative the value is written without expiry and
\* the warning is logged
C10_RewriteKeepsRemainingTtl ==
    [][\A k \in Keys :
          (/\ staleTasks[k].pc = "ttl" /\ staleTasks'[k].pc # "ttl"
           /\ staleTasks[k].reply.ok)
          => LET t == staleTasks[k].reply.ttl
                 accepted == env'.faults = env.faults
             IN  /\ (t > 0 /\ accepted) =>
                        /\ store'[k].present
                        /\ store'[k].text = CacheData(staleTasks[k].data)
                        /\ store'[k].ttl = t
                 /\ (t <= 0 /\ accepted) =>
                        /\ store'[k].present
                        /\ store'[k].text = CacheData(staleTasks[k].data)
                        /\ store'[k].ttl = -1
                 /\ t <= 0 => "WARNING: saved item to cache with no TTL" \in env'.logged
                 /\ t > 0 => env'.logged = env.logged]_vars

\* a marked value has been written back with the TTL that was left, one second less
\* than the TTL of the registration
C10_Witness ==
    \E k \in Keys :
        /\ store[k].present /\ Marked(store[k].data)
        /\ store[k].ttl = 1
        /\ staleTasks[k].pc = "idle"

\* C11: at most one refresh timeout is pending per key: no timeout is ever left pending
\* outside the timer table, and each arming leaves the key's slot with one armed
\* timeout that carries the full delay of this arming, whatever the slot held before
C11_OnePendingTimerPerKey ==
    [][/\ \A k \in Keys : prefetchTimeouts'[k].lost = 0
       /\ \A c \in 1..MaxCalls :
             (calls[c].wr = "set" /\ calls'[c].wr = "armed") =>
                 prefetchTimeouts'[calls[c].key] =
                     [st |-> "armed", lost |-> 0,
                      left |-> memoizedFunctions[calls[c].name].ttl * preset.redisPrefetchRatio]]_vars

\* two calls have armed the timer of one key, and one timeout with the full delay is
\* pending for it
C11_Witness ==
    \E c \in 1..MaxCalls, d \in 1..MaxCalls :
        /\ c # d /\ calls[c].key = calls[d].key
        /\ calls[c].wr = "armed" /\ calls[d].wr = "armed"
        /\ prefetchTimeouts[calls[c].key] =
               [st |-> "armed", lost |-> 0,
                left |-> memoizedFunctions[calls[c].name].ttl * preset.redisPrefetchRatio]

\* C12: the module's clearCache, called with everything at its defaults: with a live
\* store and an operation registered it starts that operation's invalidation, and
\* in no case does it throw
C12_InvalidateAllReachesRegistered ==
    [][/\ (clearCache /\ redisStatus = "ready") =>
             /\ returned'.last = "undefined"
             /\ \A n \in Names : memoizedFunctions[n].registered =>
                    \E i \in 1..MaxInvalidations :
                        invalidations'[i].pc # "idle" /\ invalidations'[i].name = n
       /\ (IdxClearCache /\ redisStatus = "ready") =>
             /\ returned'.last = "undefined"
             /\ \A n \in Names : idx.memoizedFunctions[n].registered =>
                    \E i \in 1..MaxInvalidations :
                        invalidations'[i].pc # "idle" /\ invalidations'[i].name = n
       /\ ((clearCache \/ IdxClearCache) /\ redisStatus # "ready") =>
             /\ returned'.last = "undefined"
             /\ invalidations' = invalidations /\ store' = store]_vars

\* SpecKeys: key derivation on its own, over arguments that are objects
NextKeys == \E c \in 1..MaxCalls, n \in Names, a \in KeyArgLists : DeriveKey(c, n, a)

SpecKeys == Init /\ [][NextKeys]_vars

RECURSIVE DeepEqual(_, _)
\* x and y are deeply equal, whatever the insertion order of the properties of objects
DeepEqual(x, y) ==
    IF x.t # y.t THEN FALSE
    ELSE IF x.t # "obj" THEN x = y
    ELSE /\ Len(x.props) = Len(y.props)
         /\ \A i \in 1..Len(x.props) : \E j \in 1..Len(y.props) :
               /\ x.props[i].k = y.props[j].k
               /\ DeepEqual(x.props[i].val, y.props[j].val)

\* argument sequences that are deeply equal element by element
SameArguments(a, b) == Len(a) = Len(b) /\ \A i \in 1..Len(a) : DeepEqual(a[i], b[i])

\* C13: two keys derived for one operation from argument sequences that are deeply equal
\* up to the insertion order of object properties are the same key, and a derived key is
\* "<name>:" followed by the serialization of the arguments object
C13_KeyIgnoresInsertionOrder ==
    \A c \in 1..MaxCalls : calls[c].pc = "key" =>
        /\ \A d \in 1..MaxCalls :
              (/\ calls[d].pc = "key" /\ calls[d].name = calls[c].name
               /\ SameArguments(calls[c].args, calls[d].args))
              => calls[c].key = calls[d].key
        /\ SubSeq(calls[c].key, 1, Len(calls[c].name) + 1) = calls[c].name \o <<":">>
        /\ calls[c].key[Len(calls[c].name) + 2] = "{"
        /\ calls[c].key[Len(calls[c].key)] = "}"
        /\ \A b \in KeyArgLists :
              SameArguments(calls[c].args, b) =>
                  calls[c].key = calls[c].name \o <<":">> \o stableStringify(ArgumentsObject(b))

\* one key was derived from two argument sequences that differ in the insertion order of
\* the properties of a nested object
C13_Witness ==
    /\ calls[1].pc = "key" /\ calls[2].pc = "key"
    /\ calls[1].args = <<ObjNested>> /\ calls[2].args = <<ObjNestedSwapped>>
    /\ calls[1].name = calls[2].name
    /\ calls[1].key = calls[2].key

\* C14: the rewrite that marks the entry at K stale leaves K with an expiry, and with
\* no more time to live than K had at that moment (K had not expired, and what the
\* rewrite leaves is no more than what was left)
C14_StaleMarkKeepsExpiry ==
    [][\A k \in Keys :
          (/\ staleTasks[k].pc = "ttl" /\ staleTasks'[k].pc # "ttl"
           /\ store'[k] # store[k])
          => /\ store'[k].ttl > 0
             /\ store[k].present
             /\ store'[k].ttl <= store[k].ttl]_vars

\* SpecLive: the protocol for the calls f("a"), on a store that answers every command
\* and stays ready, where time advances and every reply, every settlement of f and
\* every due timeout is handled in the end; nothing obliges a caller to call
NextLive ==
    \/ \E c \in 1..MaxCalls : memoizedMethod(c, <<"f">>, <<Str(<<"a">>)>>)
    \/ \E c \in 1..MaxCalls : OnRedisResponse(c)
    \/ \E c \in 1..MaxCalls : OnFunctionSettled(c)
    \/ \E c \in 1..MaxCalls : OnRefreshSettled(c)
    \/ \E c \in 1..MaxCalls : OnSetReply(c)
    \/ \E k \in Keys : TimerFire(k)
    \/ \E k \in Keys : OnStaleRead(k)
    \/ \E k \in Keys : OnItemTtl(k)
    \/ Tick

Handled ==
    /\ \A c \in 1..MaxCalls :
          /\ WF_vars(OnRedisResponse(c)) /\ WF_vars(OnFunctionSettled(c))
          /\ WF_vars(OnRefreshSettled(c)) /\ WF_vars(OnSetReply(c))
    /\ \A k \in Keys : WF_vars(TimerFire(k)) /\ WF_vars(OnStaleRead(k)) /\ WF_vars(OnItemTtl(k))
    /\ WF_vars(Tick)

InitLive == InitInvalidate /\ redisStatus = "ready"

SpecLive == InitLive /\ [][NextLive]_vars /\ Handled

\* C15: an entry that carries the staleness marker is in the end replaced by an unmarked
\* value or gone from its key
C15_StaleEntryEventuallyGone ==
    \A k \in Keys :
        (store[k].present /\ Marked(store[k].data))
            ~> (~store[k].present \/ ~Marked(store[k].data))

\* another call for the same key took the miss path and has its result written
OtherMissWrote(c) ==
    \E d \in 1..MaxCalls :
        /\ d # c /\ calls[d].key = calls[c].key
        /\ calls[d].path = "miss" /\ calls[d].wr \in {"set", "armed"}

\* C16: calls for one key that read it absent each invoke the operation, whatever the
\* other has done meanwhile, and each write their own result: a write that follows
\* another call's write leaves K holding the later result, and the timer armed on its
\* reply is the one timeout pending for K
C16_ConcurrentMissesLastWriteWins ==
    [][\A c \in 1..MaxCalls :
          /\ (/\ calls[c].pc = "get" /\ calls'[c].pc # "get"
              /\ calls[c].reply.ok /\ ~calls[c].reply.hit)
             => calls'[c].pc = "f" /\ calls'[c].path = "miss" /\ calls'[c].fcalls = 1
          /\ (/\ calls[c].pc = "f" /\ calls[c].path = "miss" /\ OtherMissWrote(c)
              /\ calls'[c].pc = "done" /\ calls'[c].wr = "set")
             => /\ store'[calls[c].key].present
                /\ store'[calls[c].key].data = calls'[c].outcome.val
                /\ store'[calls[c].key].text = CacheData(calls'[c].outcome.val)
          /\ (/\ calls[c].wr = "set" /\ calls'[c].wr = "armed" /\ OtherMissWrote(c))
             => /\ prefetchTimeouts'[calls[c].key].st = "armed"
                /\ prefetchTimeouts'[calls[c].key].lost = 0]_vars

\* two calls for one key both missed, invoked the operation once each with different
\* results and wrote them; K holds one of the two and one timeout is pending for it
C16_Witness ==
    \E c \in 1..MaxCalls, d \in 1..MaxCalls :
        /\ c # d /\ calls[c].key = calls[d].key
        /\ calls[c].path = "miss" /\ calls[d].path = "miss"
        /\ calls[c].fcalls = 1 /\ calls[d].fcalls = 1
        /\ calls[c].wr = "armed" /\ calls[d].wr = "armed"
        /\ calls[c].wdata # calls[d].wdata
        /\ store[calls[c].key].present
        /\ store[calls[c].key].data \in {calls[c].wdata, calls[d].wdata}
        /\ prefetchTimeouts[calls[c].key].st = "armed"
        /\ prefetchTimeouts[calls[c].key].lost = 0

\* C17: the delete that follows a rejection of f leaves the timer table without an entry
\* for the key, whether the store is live or not; and a timeout fires only while the
\* table holds it armed, so a timeout removed this way does not fire
C17_DeleteRemovesTimer ==
    [][/\ \A c \in 1..MaxCalls :
             (/\ calls[c].pc = "f" /\ calls[c].path = "miss" /\ calls'[c].path = "retry")
             => prefetchTimeouts'[calls[c].key] = NoTimer
       /\ \A k \in Keys :
             (staleTasks[k].pc = "idle" /\ staleTasks'[k].pc # "idle")
             => prefetchTimeouts[k].st = "armed" /\ prefetchTimeouts[k].left = 0]_vars

\* a call's f rejected while the store was not ready: no del was issued and the entry is
\* still stored, and the timer another call had armed for the key is gone from the table
C17_Witness ==
    \E c \in 1..MaxCalls, d \in 1..MaxCalls :
        /\ c # d /\ calls[c].key = calls[d].key
        /\ calls[c].path = "retry" /\ "del" \notin calls[c].ops
        /\ calls[d].wr = "armed"
        /\ store[calls[c].key].present
        /\ prefetchTimeouts[calls[c].key] = NoTimer

\* C18: a timeout fires once, and once it has fired the timer table holds no record for
\* its key until a write arms a new one
C18_FiredTimerDiscarded ==
    [][\A k \in Keys :
          /\ (staleTasks[k].pc = "idle" /\ staleTasks'[k].pc # "idle")
             => prefetchTimeouts'[k].st = "none"
          /\ prefetchTimeouts[k].st = "none" =>
                prefetchTimeouts'[k].st \in {"none", "armed"}
          /\ (prefetchTimeouts[k].st = "none" /\ prefetchTimeouts'[k].st = "armed")
             => \E c \in 1..MaxCalls :
                    calls[c].key = k /\ calls[c].wr = "set" /\ calls'[c].wr = "armed"]_vars

\* C19: when the read of a timer fire finds no entry at the key, the fire ends there:
\* no command follows, the store and the timer table stay as they are
C19_FireOnAbsentKeyIsNoOp ==
    [][\A k \in Keys :
          (/\ staleTasks[k].pc = "get" /\ staleTasks'[k].pc # "get"
           /\ staleTasks[k].reply.ok /\ ~staleTasks[k].reply.hit)
          => /\ staleTasks'[k] = IdleStale
             /\ store' = store
             /\ prefetchTimeouts' = prefetchTimeouts
             /\ env' = env]_vars

\* a timer has fired for a key that holds nothing: the read came back empty
C19_Witness ==
    \E k \in Keys :
        /\ prefetchTimeouts[k].st = "fired"
        /\ staleTasks[k].pc = "get" /\ staleTasks[k].reply.ok /\ ~staleTasks[k].reply.hit
        /\ ~store[k].present

\* C20: a wrapper call invokes the operation at most once on the caller's path, and at
\* most once in the background, and then only after a stale read
C20_AtMostOneInvocation ==
    \A c \in 1..MaxCalls :
        calls[c].via = "memo" =>
            /\ calls[c].fcalls <= 1
            /\ calls[c].bg # "none" => (calls[c].path = "stale" /\ calls[c].fcalls = 0)

\* C21: every key the store holds has an expiry: a positive time to live, no more than
\* the TTL of the operation the key belongs to
C21_EveryEntryExpires ==
    \A k \in Keys :
        store[k].present =>
            /\ store[k].ttl > 0
            /\ \A n \in Names : InScope(n, <<>>, k) => store[k].ttl <= memoizedFunctions[n].ttl

\* C22: when the rewrite of a timer fire is issued while K holds an unmarked value other
\* than the one the fire read (a miss or refresh write came in between), the rewrite
\* leaves that value in place, unmarked
C22_StaleMarkKeepsNewerData ==
    [][\A k \in Keys :
          (/\ staleTasks[k].pc = "ttl" /\ staleTasks'[k].pc # "ttl"
           /\ store[k].present /\ ~Marked(store[k].data)
           /\ SetTrue(store[k].data, REQUEST_RESET_KEY) # staleTasks[k].data)
          => store'[k].data = store[k].data]_vars

\* a wrapper call whose promise or whose background refresh has not settled
InFlight(c) == calls[c].pc \notin {"idle", "done"} \/ calls[c].bg = "f"

\* SpecSettled: the protocol with clearCache for callers that invalidate once their
\* calls have settled and make no call from then on; the timers and the handlers of
\* replies run as they do in SpecInvalidate
NextSettled ==
    \/ \E c \in 1..MaxCalls, in \in CallInputs :
          /\ \A i \in 1..MaxInvalidations : invalidations[i].pc = "idle"
          /\ memoizedMethod(c, in[1], in[2])
    \/ \E c \in 1..MaxCalls : OnRedisResponse(c)
    \/ \E c \in 1..MaxCalls : OnFunctionSettled(c)
    \/ \E c \in 1..MaxCalls : OnRefreshSettled(c)
    \/ \E c \in 1..MaxCalls : OnSetReply(c)
    \/ \E i \in 1..MaxInvalidations, n \in Names, l \in Locators :
          /\ \A c \in 1..MaxCalls : ~InFlight(c)
          /\ clearMemoizedFunctionCache(i, n, l)
    \/ \E i \in 1..MaxInvalidations : OnKeysReply(i)
    \/ \E k \in Keys : TimerFire(k)
    \/ \E k \in Keys : OnStaleRead(k)
    \/ \E k \in Keys : OnItemTtl(k)
    \/ Tick

SpecSettled == InitInvalidate /\ [][NextSettled]_vars

\* C23: a key that clearCache has deleted on a live store stays absent when no call is
\* in flight at the invalidation and none is made after it, whatever the refresh timer
\* had begun before the delete
C23_InvalidatedKeyStaysAbsent ==
    \A i \in 1..MaxInvalidations, k \in Keys :
        (invalidations[i].pc = "done" /\ invalidations[i].live /\ k \in invalidations[i].keys)
            => ~store[k].present

\* C24: what a call returns on a hit, fresh or stale, is a value the operation returned
\* to an earlier call for the same key (that call wrote it), and carries no staleness
\* marker
C24_HitReturnsOperationValue ==
    \A c \in 1..MaxCalls :
        (calls[c].pc = "done" /\ calls[c].path \in {"hit", "stale"})
            => /\ calls[c].outcome.kind = "ok"
               /\ ~Marked(calls[c].outcome.val)
               /\ \E d \in 1..MaxCalls \ {c} :
                      /\ calls[d].key = calls[c].key
                      /\ calls[d].wr \in {"set", "armed"}
                      /\ calls[d].wdata = calls[c].outcome.val

====
